---- MODULE Spec2Model ----
(***************************************************************************)
(* Model of src/app.py: the border-seeded flood fill that removes an image *)
(* background (remove_bg_floodfill and its helpers) and the /convert       *)
(* request handler that calls it.                                          *)
(*                                                                         *)
(* An image is a record [w, h, px] with px a function from the pixel       *)
(* coordinates <<x, y>> to RGBA tuples.  An optional value (Python None)   *)
(* is a sequence of length 0, a present value the value itself or a        *)
(* one-element sequence.                                                   *)
(***************************************************************************)
EXTENDS Integers, Sequences, FiniteSets, TLC

VARIABLES
    img,          \* the image handed to remove_bg_floodfill (RGBA)
    tolerance,    \* its tolerance argument
    ref_color,    \* its ref_color argument: <<>> (None) or an RGB triple
    pc,           \* position inside remove_bg_floodfill
    thr,          \* local thr
    ref,          \* ref_color after line 140: <<>> until resolved
    visited,      \* pixels with visited[y][x] = True
    make_transp,  \* pixels with make_transp[y][x] = True
    q,            \* the deque
    log,          \* history: the tests, visited-marks and appends, in order
    si,           \* index of the next seeding call of lines 157-160
    seedTried,    \* order-free variant: the seeding calls already made
    out,          \* <<>> or <<the returned image>>
    err,          \* "" or the name of the exception that ended the call
    pass,         \* 1: first application, 2: application to its own output
    first,        \* <<>> or <<output, mask>> of the first application
    rpc,          \* position inside convert()
    req,          \* the request fields convert() has read so far
    status,       \* HTTP status of the response, 0 while there is none
    ffInvoked     \* remove_bg_floodfill was called by convert()

ffvars == <<img, tolerance, ref_color, pc, thr, ref, visited, make_transp, q,
            log, si, seedTried, out, err, pass, first>>
reqvars == <<rpc, req, status, ffInvoked>>
vars == <<img, tolerance, ref_color, pc, thr, ref, visited, make_transp, q,
          log, si, seedTried, out, err, pass, first, rpc, req, status, ffInvoked>>

-----------------------------------------------------------------------------
(* Bounds of the model and the inputs drawn from them.                     *)

MaxSide == 3
MaxArea == 9

PixA == <<10, 20, 30, 255>>
PixB == <<200, 200, 200, 128>>
Palette == {PixA, PixB}

RefColors == {<<10, 20, 30>>, <<255, 255, 255>>}
Tolerances == {0, 10, 100, 130}

Pixels(w, h) == (0 .. w - 1) \X (0 .. h - 1)

Dims == {d \in (0 .. MaxSide) \X (0 .. MaxSide) : d[1] * d[2] <= MaxArea}

\* The 4x4 image with border (10,20,30) and interior (200,200,200).
Frame4 ==
    [w |-> 4, h |-> 4,
     px |-> [p \in Pixels(4, 4) |->
               IF p[1] \in {0, 3} \/ p[2] \in {0, 3} THEN PixA ELSE PixB]]

Images ==
    UNION {{[w |-> d[1], h |-> d[2], px |-> f] :
              f \in [Pixels(d[1], d[2]) -> Palette]} : d \in Dims}
    \cup {Frame4}

-----------------------------------------------------------------------------
(* Helpers of the flood fill.                                              *)

Abs(n) == IF n < 0 THEN -n ELSE n

RGB(p) == <<p[1], p[2], p[3]>>

color_dist(c, r) == Abs(c[1] - r[1]) + Abs(c[2] - r[2]) + Abs(c[3] - r[3])

\* Faulty variant: the factor 2.1 truncated to 2 before the product.
ThrOf_factor2(t) ==
    LET lo == IF t < 100 THEN t ELSE 100
        tol == IF lo > 0 THEN lo ELSE 0
    IN  2 * tol

\* tol = max(0, min(100, int(tolerance))); thr = int(2.1 * tol).  For every
\* tol in 0..100 the float product truncates to (21 * tol) \div 10.
ThrOf(t) ==
    LET lo == IF t < 100 THEN t ELSE 100
        tol == IF lo > 0 THEN lo ELSE 0
    IN  (21 * tol) \div 10

\* The pixel reads of avg_border_color, in order: (x,0), (x,h-1) for each x,
\* then (0,y), (w-1,y) for each y.
BorderReads(w, h) ==
    [i \in 1 .. 2 * w |->
        IF i % 2 = 1 THEN <<(i - 1) \div 2, 0>> ELSE <<(i - 1) \div 2, h - 1>>]
    \o
    [i \in 1 .. 2 * h |->
        IF i % 2 = 1 THEN <<0, (i - 1) \div 2>> ELSE <<w - 1, (i - 1) \div 2>>]

\* px[x, y] of a PIL pixel-access object: a negative index counts from the
\* end, and an index outside the image raises IndexError.
PxIndex(im, c) ==
    <<IF c[1] < 0 THEN im.w + c[1] ELSE c[1],
      IF c[2] < 0 THEN im.h + c[2] ELSE c[2]>>

PxInRange(im, c) == PxIndex(im, c) \in Pixels(im.w, im.h)

RECURSIVE SumChannel(_, _, _)
SumChannel(im, reads, ch) ==
    IF reads = <<>> THEN 0
    ELSE im.px[PxIndex(im, Head(reads))][ch] + SumChannel(im, Tail(reads), ch)

\* Faulty variant: every border pixel sampled once, the corners not twice.
avg_border_color_once(im) ==
    LET border == {p \in Pixels(im.w, im.h) :
                     p[1] \in {0, im.w - 1} \/ p[2] \in {0, im.h - 1}}
        cells == CHOOSE f \in [1 .. Cardinality(border) -> border] :
                     \A i, j \in 1 .. Cardinality(border) : i # j => f[i] # f[j]
        count == Cardinality(border)
    IN  IF count = 0
        THEN [err |-> "ZeroDivisionError", val |-> <<>>]
        ELSE [err |-> "",
              val |-> <<SumChannel(im, cells, 1) \div count,
                        SumChannel(im, cells, 2) \div count,
                        SumChannel(im, cells, 3) \div count>>]

\* avg_border_color: [err |-> exception name or "", val |-> the RGB mean].
avg_border_color(im) ==
    LET reads == BorderReads(im.w, im.h)
        count == Len(reads)
    IN  IF \E i \in 1 .. count : ~PxInRange(im, reads[i])
        THEN [err |-> "IndexError", val |-> <<>>]
        ELSE IF count = 0
        THEN [err |-> "ZeroDivisionError", val |-> <<>>]
        ELSE [err |-> "",
              val |-> <<SumChannel(im, reads, 1) \div count,
                        SumChannel(im, reads, 2) \div count,
                        SumChannel(im, reads, 3) \div count>>]

\* The state the fill works on, and its value at line 146.
FillState == [visited |-> visited, make_transp |-> make_transp, q |-> q, log |-> log]
EmptyFill == [visited |-> {}, make_transp |-> {}, q |-> <<>>, log |-> <<>>]

Cx == [img |-> img, ref |-> ref, thr |-> thr]

\* Faulty variant: the seed is marked transparent and queued, not visited.
try_push_unmarked(cx, s, x, y) ==
    LET p == <<x, y>> IN
    IF 0 <= x /\ x < cx.img.w /\ 0 <= y /\ y < cx.img.h /\ p \notin s.visited
    THEN IF color_dist(RGB(cx.img.px[p]), cx.ref) <= cx.thr
         THEN [visited |-> s.visited,
               make_transp |-> s.make_transp \cup {p},
               q |-> Append(s.q, p),
               log |-> s.log \o << <<"test", p>>, <<"enq", p>> >>]
         ELSE [s EXCEPT !.log = Append(@, <<"test", p>>)]
    ELSE s

try_push(cx, s, x, y) ==
    LET p == <<x, y>> IN
    IF 0 <= x /\ x < cx.img.w /\ 0 <= y /\ y < cx.img.h /\ p \notin s.visited
    THEN IF color_dist(RGB(cx.img.px[p]), cx.ref) <= cx.thr
         THEN [visited |-> s.visited \cup {p},
               make_transp |-> s.make_transp \cup {p},
               q |-> Append(s.q, p),
               log |-> s.log \o << <<"test", p>>, <<"visit", p>>, <<"enq", p>> >>]
         ELSE [s EXCEPT !.log = Append(@, <<"test", p>>)]
    ELSE s

\* The seeding calls of lines 157-160, in order.
SeedCalls(w, h) == BorderReads(w, h)

\* One neighbour of the loop body, lines 166-173.
examine(cx, s, n) ==
    IF 0 <= n[1] /\ n[1] < cx.img.w /\ 0 <= n[2] /\ n[2] < cx.img.h
       /\ n \notin s.visited
    THEN IF color_dist(RGB(cx.img.px[n]), cx.ref) <= cx.thr
         THEN [visited |-> s.visited \cup {n},
               make_transp |-> s.make_transp \cup {n},
               q |-> Append(s.q, n),
               log |-> s.log \o << <<"test", n>>, <<"visit", n>>, <<"enq", n>> >>]
         ELSE [s EXCEPT !.visited = @ \cup {n},
                        !.log = @ \o << <<"test", n>>, <<"visit", n>> >>]
    ELSE s

\* Faulty variant: the diagonal neighbours are examined too.
Neighbours_diagonal(p) ==
    << <<p[1] + 1, p[2]>>, <<p[1] - 1, p[2]>>, <<p[1], p[2] + 1>>, <<p[1], p[2] - 1>>,
       <<p[1] + 1, p[2] + 1>>, <<p[1] - 1, p[2] - 1>>,
       <<p[1] + 1, p[2] - 1>>, <<p[1] - 1, p[2] + 1>> >>

\* The neighbours of line 165, in order.
Neighbours(p) ==
    << <<p[1] + 1, p[2]>>, <<p[1] - 1, p[2]>>, <<p[1], p[2] + 1>>, <<p[1], p[2] - 1>> >>

\* Faulty variant: the loop over the neighbours is left at the first
\* neighbour that fails the colour test.
RECURSIVE examine_all_break(_, _, _)
examine_all_break(cx, s, ns) ==
    IF ns = <<>> THEN s
    ELSE LET n == Head(ns)
             s1 == examine(cx, s, n)
         IN  IF n \in s1.visited /\ n \notin s.visited /\ n \notin s1.make_transp
             THEN s1
             ELSE examine_all_break(cx, s1, Tail(ns))

\* The for loop of line 165 over the neighbours ns.
RECURSIVE examine_all(_, _, _)
examine_all(cx, s, ns) ==
    IF ns = <<>> THEN s
    ELSE examine_all(cx, examine(cx, s, Head(ns)), Tail(ns))

\* One iteration of the while loop: popleft, then the four neighbours.
pop_step(cx, s) ==
    examine_all(cx, [s EXCEPT !.q = Tail(@)], Neighbours(Head(s.q)))

\* Faulty variant: a pixel that is not marked is written fully opaque.
output_image_opaque(im, mask) ==
    [w |-> im.w, h |-> im.h,
     px |-> [p \in Pixels(im.w, im.h) |->
               IF p \in mask
               THEN <<im.px[p][1], im.px[p][2], im.px[p][3], 0>>
               ELSE <<im.px[p][1], im.px[p][2], im.px[p][3], 255>>]]

\* Faulty variant: a marked pixel is written as transparent black.
output_image_black(im, mask) ==
    [w |-> im.w, h |-> im.h,
     px |-> [p \in Pixels(im.w, im.h) |->
               IF p \in mask THEN <<0, 0, 0, 0>> ELSE im.px[p]]]

\* Lines 175-181: the returned image.
output_image(im, mask) ==
    [w |-> im.w, h |-> im.h,
     px |-> [p \in Pixels(im.w, im.h) |->
               IF p \in mask
               THEN <<im.px[p][1], im.px[p][2], im.px[p][3], 0>>
               ELSE im.px[p]]]

\* The seeding loops of lines 157-160 over the calls cs.
RECURSIVE seed_all(_, _, _)
seed_all(cx, s, cs) ==
    IF cs = <<>> THEN s
    ELSE seed_all(cx, try_push(cx, s, Head(cs)[1], Head(cs)[2]), Tail(cs))

\* The while loop of lines 163-173.
RECURSIVE fill_loop(_, _)
fill_loop(cx, s) ==
    IF s.q = <<>> THEN s ELSE fill_loop(cx, pop_step(cx, s))

\* Lines 142-173 in one piece: the grids when the loop has ended.
flood_fill(cx) ==
    fill_loop(cx, seed_all(cx, EmptyFill, SeedCalls(cx.img.w, cx.img.h)))

-----------------------------------------------------------------------------
(* remove_bg_floodfill, step by step.                                      *)

IdleReq == /\ rpc = "idle" /\ req = <<>> /\ status = 0 /\ ffInvoked = FALSE

Init ==
    /\ img \in Images
    /\ tolerance \in Tolerances
    /\ ref_color \in {<<>>} \cup RefColors
    /\ pc = "start"
    /\ thr = 0 /\ ref = <<>>
    /\ visited = {} /\ make_transp = {} /\ q = <<>> /\ log = <<>>
    /\ si = 1 /\ seedTried = {}
    /\ out = <<>> /\ err = ""
    /\ pass = 1 /\ first = <<>>
    /\ IdleReq

\* Lines 131-146: threshold, reference colour, empty grids and queue.
Enter ==
    /\ pc = "start"
    /\ thr' = ThrOf(tolerance)
    /\ visited' = {} /\ make_transp' = {} /\ q' = <<>> /\ log' = <<>>
    /\ si' = 1 /\ seedTried' = {}
    /\ LET avg == IF ref_color = <<>> THEN avg_border_color(img)
                  ELSE [err |-> "", val |-> ref_color]
       IN  IF avg.err # ""
           THEN /\ pc' = "error" /\ err' = avg.err /\ ref' = <<>>
           ELSE /\ ref' = avg.val /\ err' = ""
                /\ pc' = IF SeedCalls(img.w, img.h) = <<>> THEN "fill" ELSE "seed"
    /\ UNCHANGED <<img, tolerance, ref_color, out, pass, first>>
    /\ UNCHANGED reqvars

\* Lines 157-160: the next try_push call.
Seed ==
    /\ pc = "seed"
    /\ LET calls == SeedCalls(img.w, img.h)
           s == try_push(Cx, FillState, calls[si][1], calls[si][2])
       IN  /\ visited' = s.visited /\ make_transp' = s.make_transp
           /\ q' = s.q /\ log' = s.log
           /\ si' = si + 1
           /\ pc' = IF si = Len(calls) THEN "fill" ELSE "seed"
    /\ UNCHANGED <<img, tolerance, ref_color, thr, ref, seedTried, out, err, pass, first>>
    /\ UNCHANGED reqvars

\* Lines 163-173: one iteration of the while loop.
Pop ==
    /\ pc = "fill" /\ q # <<>>
    /\ LET s == pop_step(Cx, FillState)
       IN  /\ visited' = s.visited /\ make_transp' = s.make_transp
           /\ q' = s.q /\ log' = s.log
    /\ UNCHANGED <<img, tolerance, ref_color, pc, thr, ref, si, seedTried, out, err,
                   pass, first>>
    /\ UNCHANGED reqvars

\* Lines 175-181: the loop has ended, the output image is built and returned.
Output ==
    /\ pc = "fill" /\ q = <<>>
    /\ out' = <<output_image(img, make_transp)>>
    /\ pc' = "done"
    /\ UNCHANGED <<img, tolerance, ref_color, thr, ref, visited, make_transp, q, log,
                   si, seedTried, err, pass, first>>
    /\ UNCHANGED reqvars

\* The returned image is handed to remove_bg_floodfill again, same parameters.
Reapply ==
    /\ pc = "done" /\ pass = 1
    /\ first' = <<out[1], make_transp>>
    /\ img' = out[1]
    /\ pass' = 2
    /\ pc' = "start"
    /\ out' = <<>>
    /\ UNCHANGED <<tolerance, ref_color, thr, ref, visited, make_transp, q, log, si,
                   seedTried, err>>
    /\ UNCHANGED reqvars

Next == Enter \/ Seed \/ Pop \/ Output \/ Reapply

Spec == Init /\ [][Next]_vars

\* The fill alone, for one tolerance: every run is scheduled until it ends.
InitFill ==
    /\ img \in Images
    /\ tolerance = 10
    /\ ref_color \in {<<>>, <<10, 20, 30>>}
    /\ pc = "start"
    /\ thr = 0 /\ ref = <<>>
    /\ visited = {} /\ make_transp = {} /\ q = <<>> /\ log = <<>>
    /\ si = 1 /\ seedTried = {}
    /\ out = <<>> /\ err = ""
    /\ pass = 1 /\ first = <<>>
    /\ IdleReq

NextFill == Enter \/ Seed \/ Pop \/ Output

FairSpec == InitFill /\ [][NextFill]_vars /\ WF_vars(NextFill)

-----------------------------------------------------------------------------
(* The fill with every traversal order: the border pixels are seeded in any *)
(* order, any queued pixel is taken next, and its four neighbours are      *)
(* examined in any order.  As any element may be taken next, the queue is  *)
(* kept in one fixed order of its elements; the history is not kept.       *)

Range(f) == {f[i] : i \in DOMAIN f}

PixelBefore(a, b) == a[1] < b[1] \/ (a[1] = b[1] /\ a[2] < b[2])

Canon(s) == SortSeq(s, PixelBefore)

RemoveAt(s, i) == SubSeq(s, 1, i - 1) \o SubSeq(s, i + 1, Len(s))

Orders(ns) == {[i \in 1 .. Len(ns) |-> ns[f[i]]] : f \in Permutations(1 .. Len(ns))}

SeedAny ==
    /\ pc = "seed"
    /\ \E c \in Range(SeedCalls(img.w, img.h)) \ seedTried :
          LET s == try_push(Cx, FillState, c[1], c[2])
          IN  /\ visited' = s.visited /\ make_transp' = s.make_transp
              /\ q' = Canon(s.q)
              /\ seedTried' = seedTried \cup {c}
              /\ pc' = IF seedTried' = Range(SeedCalls(img.w, img.h))
                       THEN "fill" ELSE "seed"
    /\ log' = <<>>
    /\ UNCHANGED <<img, tolerance, ref_color, thr, ref, si, out, err, pass, first>>
    /\ UNCHANGED reqvars

PopAny ==
    /\ pc = "fill" /\ q # <<>>
    /\ \E i \in 1 .. Len(q) : \E ns \in Orders(Neighbours(q[i])) :
          LET s == examine_all(Cx, [FillState EXCEPT !.q = RemoveAt(q, i)], ns)
          IN  /\ visited' = s.visited /\ make_transp' = s.make_transp
              /\ q' = Canon(s.q)
    /\ log' = <<>>
    /\ UNCHANGED <<img, tolerance, ref_color, pc, thr, ref, si, seedTried, out, err,
                   pass, first>>
    /\ UNCHANGED reqvars

NextOrd == Enter \/ SeedAny \/ PopAny \/ Output

SpecOrd == InitFill /\ [][NextOrd]_vars

-----------------------------------------------------------------------------
(* The /convert handler.  A string is a sequence of one-character strings; *)
(* a missing request field is the empty sequence.  The image bytes are     *)
(* PIL's business: the model keeps which calls the handler makes, with     *)
(* which arguments, and the status it answers with.                        *)

MaxHexLen == 6

UpperChars == <<"A", "B", "C", "D", "E", "F", "G", "H", "I", "J", "K", "L", "M", "N", "O", "P", "Q", "R", "S", "T", "U", "V", "W", "X", "Y", "Z">>
LowerChars == <<"a", "b", "c", "d", "e", "f", "g", "h", "i", "j", "k", "l", "m", "n", "o", "p", "q", "r", "s", "t", "u", "v", "w", "x", "y", "z">>

LowerChar(c) ==
    IF \E i \in 1 .. Len(UpperChars) : UpperChars[i] = c
    THEN LowerChars[CHOOSE i \in 1 .. Len(UpperChars) : UpperChars[i] = c]
    ELSE c

\* str.lower()
Lower(s) == [i \in 1 .. Len(s) |-> LowerChar(s[i])]

\* str.lstrip(chars) and str.strip() (white space is the blank here)
RECURSIVE LStrip(_, _)
LStrip(s, chars) ==
    IF s # <<>> /\ Head(s) \in chars THEN LStrip(Tail(s), chars) ELSE s

RECURSIVE RStrip(_, _)
RStrip(s, chars) ==
    IF s # <<>> /\ s[Len(s)] \in chars THEN RStrip(SubSeq(s, 1, Len(s) - 1), chars) ELSE s

Strip(s) == RStrip(LStrip(s, {" "}), {" "})

\* TARGETS, lines 15-22: key -> PIL save format.
TARGETS ==
    { <<<<"p", "n", "g">>, "PNG">>, <<<<"j", "p", "g">>, "JPEG">>, <<<<"j", "p", "e", "g">>, "JPEG">>,
      <<<<"w", "e", "b", "p">>, "WEBP">>, <<<<"b", "m", "p">>, "BMP">>, <<<<"t", "i", "f", "f">>, "TIFF">> }

\* ACCEPTED_INPUT_EXTS, line 25.
ACCEPTED_INPUT_EXTS ==
    { <<".", "j", "p", "g">>, <<".", "j", "p", "e", "g">>, <<".", "p", "n", "g">>, <<".", "w", "e", "b", "p">>,
      <<".", "b", "m", "p">>, <<".", "t", "i", "f">>, <<".", "t", "i", "f", "f">>, <<".", "g", "i", "f">> }

\* pick_target: the PIL format, or "" when the handler aborts with 415.
pick_target(raw) ==
    LET key == LStrip(Strip(Lower(raw)), {"."})
    IN  IF \E t \in TARGETS : t[1] = key
        THEN (CHOOSE t \in TARGETS : t[1] = key)[2]
        ELSE ""

\* ext_of: from the last "." of the lowered, stripped name on, or "".
ext_of(name) ==
    LET n == Strip(Lower(name))
        dots == {i \in 1 .. Len(n) : n[i] = "."}
    IN  IF dots = {} THEN <<>>
        ELSE SubSeq(n, CHOOSE i \in dots : \A j \in dots : j <= i, Len(n))

DecDigits == <<"0", "1", "2", "3", "4", "5", "6", "7", "8", "9">>
HexDigits == <<"0", "1", "2", "3", "4", "5", "6", "7", "8", "9", "a", "b", "c", "d", "e", "f">>
HexUpper == <<"0", "1", "2", "3", "4", "5", "6", "7", "8", "9", "A", "B", "C", "D", "E", "F">>

IsDec(c) == \E i \in 1 .. 10 : DecDigits[i] = c
DecVal(c) == (CHOOSE i \in 1 .. 10 : DecDigits[i] = c) - 1

IsHexChar(c) ==
    \E i \in 1 .. 16 : HexDigits[i] = c \/ HexUpper[i] = c
HexVal(c) == (CHOOSE i \in 1 .. 16 : HexDigits[i] = c \/ HexUpper[i] = c) - 1

\* int(s) of a form field: an optional sign and decimal digits, white space
\* around them ignored; anything else raises ValueError.
RECURSIVE DecOf(_)
DecOf(s) == IF s = <<>> THEN 0 ELSE 10 * DecOf(SubSeq(s, 1, Len(s) - 1)) + DecVal(s[Len(s)])

ParseInt(raw) ==
    LET t == Strip(raw)
        body == IF t # <<>> /\ Head(t) \in {"+", "-"} THEN Tail(t) ELSE t
    IN  IF body = <<>> \/ \E i \in 1 .. Len(body) : ~IsDec(body[i])
        THEN [err |-> "ValueError", val |-> 0]
        ELSE [err |-> "",
              val |-> IF Head(t) = "-" THEN 0 - DecOf(body) ELSE DecOf(body)]

\* int(s, 16) of a two-character slice: two hex digits; or a sign or a blank
\* and one hex digit; or one hex digit and a blank.
ParseHexPair(s) ==
    IF IsHexChar(s[1]) /\ IsHexChar(s[2])
    THEN [err |-> "", val |-> 16 * HexVal(s[1]) + HexVal(s[2])]
    ELSE IF s[1] \in {"+", " "} /\ IsHexChar(s[2])
    THEN [err |-> "", val |-> HexVal(s[2])]
    ELSE IF s[1] = "-" /\ IsHexChar(s[2])
    THEN [err |-> "", val |-> 0 - HexVal(s[2])]
    ELSE IF IsHexChar(s[1]) /\ s[2] = " "
    THEN [err |-> "", val |-> HexVal(s[1])]
    ELSE [err |-> "ValueError", val |-> 0]

\* hex_to_rgb: [err |-> "" | "abort400" | "ValueError", val |-> the triple].
hex_to_rgb(h) ==
    LET h1 == LStrip(Strip(h), {"#"})
        h2 == IF Len(h1) = 3
              THEN <<h1[1], h1[1], h1[2], h1[2], h1[3], h1[3]>>
              ELSE h1
    IN  IF Len(h2) # 6 THEN [err |-> "abort400", val |-> <<>>]
        ELSE LET r == ParseHexPair(SubSeq(h2, 1, 2))
                 g == ParseHexPair(SubSeq(h2, 3, 4))
                 b == ParseHexPair(SubSeq(h2, 5, 6))
             IN  IF r.err # "" \/ g.err # "" \/ b.err # ""
                 THEN [err |-> "ValueError", val |-> <<>>]
                 ELSE [err |-> "", val |-> <<r.val, g.val, b.val>>]

\* Faulty variant: only the JPEG target is refused.
removal_rejected_jpeg(remove_bg, pil_fmt) == remove_bg /\ pil_fmt = "JPEG"

\* Line 236: background removal asked for a target other than PNG.
removal_rejected(remove_bg, pil_fmt) == remove_bg /\ pil_fmt # "PNG"

\* Line 243: the removal runs.
removal_runs(remove_bg, pil_fmt) == remove_bg /\ pil_fmt = "PNG"

\* The request fields the model draws.
Filenames == { <<>>, <<"a", ".", "p", "n", "g">>, <<"A", ".", "P", "N", "G">>, <<"a", ".", "e", "x", "e">>, <<"a">> }
TargetInputs == { <<>>, <<"p", "n", "g">>, <<".", "P", "N", "G">>, <<" ", "j", "p", "g">>, <<"j", "p", "e", "g">>, <<"b", "m", "p">>, <<"w", "e", "b", "p">>, <<"t", "i", "f", "f">>, <<"g", "i", "f">> }
RemoveBgInputs == { <<>>, <<"1">>, <<"0">> }
ToleranceInputs == { <<>>, <<"1", "0", "0">>, <<" ", "7">>, <<"a", "b", "c">> }
ModeInputs == { <<>>, <<"a", "u", "t", "o">>, <<"c", "o", "l", "o", "r">>, <<"C", "O", "L", "O", "R">>, <<"o", "t", "h", "e", "r">> }

HexAlphabet == {"1", "a", "B", "g", "+"}

HexBodies == UNION {[1 .. n -> HexAlphabet] : n \in 0 .. MaxHexLen}

RefHexInputs ==
    {pre \o body : pre \in {<<>>, <<"#">>, <<" ", "#">>}, body \in HexBodies}

NoRequest ==
    [filename |-> <<>>, target_raw |-> <<>>, remove_bg |-> FALSE, tolerance |-> 0,
     mode |-> <<>>, pil_fmt |-> "", hex_read |-> FALSE, ref_hex |-> <<>>, ref |-> <<>>]

IdleFill ==
    /\ img = [w |-> 0, h |-> 0, px |-> <<>>]
    /\ tolerance = 0 /\ ref_color = <<>>
    /\ pc = "idle"
    /\ thr = 0 /\ ref = <<>>
    /\ visited = {} /\ make_transp = {} /\ q = <<>> /\ log = <<>>
    /\ si = 1 /\ seedTried = {}
    /\ out = <<>> /\ err = ""
    /\ pass = 1 /\ first = <<>>

InitReq ==
    /\ rpc = "file" /\ req = NoRequest /\ status = 0 /\ ffInvoked = FALSE
    /\ IdleFill

\* abort(code), or an exception no handler catches (500).
Respond(code) ==
    /\ rpc' = "done" /\ status' = code

\* Lines 204-209.
CheckFile ==
    /\ rpc = "file"
    /\ \E has_file \in BOOLEAN, filename \in Filenames :
          IF ~has_file \/ filename = <<>>
          THEN Respond(400) /\ UNCHANGED req
          ELSE /\ req' = [req EXCEPT !.filename = filename]
               /\ rpc' = "target" /\ UNCHANGED status
    /\ UNCHANGED ffInvoked /\ UNCHANGED ffvars

\* Lines 211-213.
ReadTarget ==
    /\ rpc = "target"
    /\ \E target_raw \in TargetInputs :
          IF target_raw = <<>>
          THEN Respond(400) /\ UNCHANGED req
          ELSE /\ req' = [req EXCEPT !.target_raw = target_raw]
               /\ rpc' = "ext" /\ UNCHANGED status
    /\ UNCHANGED ffInvoked /\ UNCHANGED ffvars

\* Lines 216-218; the file name is not read again by the model.
CheckExt ==
    /\ rpc = "ext"
    /\ LET ext_in == ext_of(req.filename)
       IN  IF ext_in # <<>> /\ ext_in \notin ACCEPTED_INPUT_EXTS
           THEN Respond(415) /\ UNCHANGED req
           ELSE /\ req' = [req EXCEPT !.filename = <<>>]
                /\ rpc' = "options" /\ UNCHANGED status
    /\ UNCHANGED ffInvoked /\ UNCHANGED ffvars

\* Lines 221-223.  ref_color (line 224) is a read of the same request; the
\* model draws it where it is used, line 246.
ReadOptions ==
    /\ rpc = "options"
    /\ \E rb_form \in RemoveBgInputs, rb_args \in RemoveBgInputs,
          tol_raw \in ToleranceInputs, mode_raw \in ModeInputs :
          LET tol == ParseInt(IF tol_raw = <<>> THEN <<"3", "0">> ELSE tol_raw)
          IN  IF tol.err # ""
              THEN Respond(500) /\ UNCHANGED req
              ELSE /\ req' = [req EXCEPT
                          !.remove_bg = (rb_form = <<"1">>) \/ (rb_args = <<"1">>),
                          !.tolerance = tol.val,
                          !.mode = Lower(IF mode_raw = <<>> THEN <<"a", "u", "t", "o">> ELSE mode_raw)]
                   /\ rpc' = "pick" /\ UNCHANGED status
    /\ UNCHANGED ffInvoked /\ UNCHANGED ffvars

\* Line 226; the raw target is not read again by the model.
PickTarget ==
    /\ rpc = "pick"
    /\ LET pil_fmt == pick_target(req.target_raw)
       IN  IF pil_fmt = ""
           THEN Respond(415) /\ UNCHANGED req
           ELSE /\ req' = [req EXCEPT !.pil_fmt = pil_fmt, !.target_raw = <<>>]
                /\ rpc' = "open" /\ UNCHANGED status
    /\ UNCHANGED ffInvoked /\ UNCHANGED ffvars

\* Lines 228-234: PIL opens the upload or fails.
OpenImage ==
    /\ rpc = "open"
    /\ \E opened \in BOOLEAN :
          IF opened THEN rpc' = "combo" /\ UNCHANGED status ELSE Respond(400)
    /\ UNCHANGED <<req, ffInvoked>> /\ UNCHANGED ffvars

\* Lines 236-237.
CheckCombination ==
    /\ rpc = "combo"
    /\ IF removal_rejected(req.remove_bg, req.pil_fmt)
       THEN Respond(400)
       ELSE rpc' = "prepare" /\ UNCHANGED status
    /\ UNCHANGED <<req, ffInvoked>> /\ UNCHANGED ffvars

\* Line 240.
PrepareModes ==
    /\ rpc = "prepare"
    /\ rpc' = "removebg"
    /\ UNCHANGED <<req, status, ffInvoked>> /\ UNCHANGED ffvars

\* Lines 243-247.
RemoveBackground ==
    /\ rpc = "removebg"
    /\ IF removal_runs(req.remove_bg, req.pil_fmt)
       THEN IF req.mode = <<"c", "o", "l", "o", "r">>
            THEN \E ref_hex \in RefHexInputs :
                    LET parsed == hex_to_rgb(ref_hex)
                    IN  IF parsed.err = "abort400"
                        THEN /\ Respond(400) /\ UNCHANGED ffInvoked
                             /\ req' = [req EXCEPT !.hex_read = TRUE, !.ref_hex = ref_hex]
                        ELSE IF parsed.err # ""
                        THEN /\ Respond(500) /\ UNCHANGED ffInvoked
                             /\ req' = [req EXCEPT !.hex_read = TRUE, !.ref_hex = ref_hex]
                        ELSE /\ req' = [req EXCEPT !.hex_read = TRUE, !.ref_hex = ref_hex,
                                                   !.ref = parsed.val]
                             /\ ffInvoked' = TRUE
                             /\ rpc' = "save" /\ UNCHANGED status
            ELSE /\ ffInvoked' = TRUE
                 /\ rpc' = "save" /\ UNCHANGED <<req, status>>
       ELSE rpc' = "save" /\ UNCHANGED <<req, status, ffInvoked>>
    /\ UNCHANGED ffvars

\* Lines 250-262: PIL encodes the image or fails.
Save ==
    /\ rpc = "save"
    /\ \E saved \in BOOLEAN :
          IF saved THEN rpc' = "send" /\ UNCHANGED status ELSE Respond(500)
    /\ UNCHANGED <<req, ffInvoked>> /\ UNCHANGED ffvars

\* Lines 264-279.
Send ==
    /\ rpc = "send"
    /\ Respond(200)
    /\ UNCHANGED <<req, ffInvoked>> /\ UNCHANGED ffvars

NextReq ==
    \/ CheckFile \/ ReadTarget \/ CheckExt \/ ReadOptions \/ PickTarget \/ OpenImage
    \/ CheckCombination \/ PrepareModes \/ RemoveBackground \/ Save \/ Send

SpecReq == InitReq /\ [][NextReq]_vars

-----------------------------------------------------------------------------
(* Vocabulary of the properties.                                           *)

Px == Pixels(img.w, img.h)

OnBorder(p) == p[1] = 0 \/ p[1] = img.w - 1 \/ p[2] = 0 \/ p[2] = img.h - 1

ManhattanRGB(a, b) ==
    (IF a[1] > b[1] THEN a[1] - b[1] ELSE b[1] - a[1])
    + (IF a[2] > b[2] THEN a[2] - b[2] ELSE b[2] - a[2])
    + (IF a[3] > b[3] THEN a[3] - b[3] ELSE b[3] - a[3])

WithinThr(p) == ManhattanRGB(img.px[p], ref) <= thr

Adjacent(a, b) ==
    \/ a[1] = b[1] /\ (a[2] = b[2] + 1 \/ b[2] = a[2] + 1)
    \/ a[2] = b[2] /\ (a[1] = b[1] + 1 \/ b[1] = a[1] + 1)

RECURSIVE Grow(_)
Grow(S) ==
    LET N == {p \in Px \ S : WithinThr(p) /\ \E s \in S : Adjacent(p, s)}
    IN  IF N = {} THEN S ELSE Grow(S \cup N)

\* The within-threshold pixels joined to a within-threshold border pixel by a
\* 4-connected path of within-threshold pixels.
BorderConnected == Grow({p \in Px : OnBorder(p) /\ WithinThr(p)})

Returned == out[1]

\* C1: when remove_bg_floodfill has finished, the pixels made transparent are
\* exactly the within-threshold pixels that a 4-connected path of
\* within-threshold pixels joins to the border, and their alpha is 0; an
\* enclosed within-threshold region is not among them.
C1_BorderConnectivity ==
    pc = "done" =>
        /\ make_transp = BorderConnected
        /\ \A p \in Px :
             Returned.px[p][4] = IF p \in BorderConnected THEN 0 ELSE img.px[p][4]

C1_Witness ==
    /\ pc = "done"
    /\ make_transp # {}
    /\ \E p \in Px : WithinThr(p) /\ ~OnBorder(p) /\ p \notin make_transp

\* C2: the returned image has the input's width and height, every pixel keeps
\* its R, G and B, and its alpha is 0 if the pixel was marked transparent and
\* its original alpha otherwise.
C2_OnlyAlphaChanges ==
    pc = "done" =>
        /\ Returned.w = img.w /\ Returned.h = img.h
        /\ DOMAIN Returned.px = Px
        /\ \A p \in Px :
             /\ Returned.px[p][1] = img.px[p][1]
             /\ Returned.px[p][2] = img.px[p][2]
             /\ Returned.px[p][3] = img.px[p][3]
             /\ Returned.px[p][4] = IF p \in make_transp THEN 0 ELSE img.px[p][4]

C2_Witness ==
    /\ pc = "done"
    /\ \E p \in Px : p \in make_transp /\ img.px[p][4] # 0
    /\ \E p \in Px : p \notin make_transp /\ Returned.px[p][4] = 128

\* C4: on a degenerate image (1x1, or of zero area) remove_bg_floodfill ends
\* without an exception, in auto mode and in colour mode, and returns an image
\* of the same dimensions.
C4_DegenerateCompletes ==
    (img.w * img.h = 0 \/ (img.w = 1 /\ img.h = 1)) =>
        /\ pc # "error"
        /\ pc = "done" => (Returned.w = img.w /\ Returned.h = img.h)

\* C5: applying remove_bg_floodfill to its own output with the same parameters
\* ends without an exception and returns that output again, with the same
\* pixels marked transparent, in colour mode and in auto mode.
C5_Idempotent ==
    pass = 2 =>
        /\ pc # "error"
        /\ pc = "done" => (Returned = first[1] /\ make_transp = first[2])

C5_Witness ==
    /\ pass = 2 /\ pc = "done"
    /\ ref_color = <<>>
    /\ make_transp # {} /\ make_transp # Px

Solid == Px # {} /\ \A p1 \in Px, p2 \in Px : RGB(img.px[p1]) = RGB(img.px[p2])

SolidColour == RGB(img.px[CHOOSE p \in Px : TRUE])

TolRange == (0 - 20) .. 120

\* C7 as stated: with tolerance=100 the threshold is 210 and every
\* single-colour image comes back fully transparent, whatever the mode and the
\* reference colour.
C7_SolidAlwaysCleared ==
    (pc = "done" /\ tolerance = 100 /\ Solid) =>
        /\ thr = 210
        /\ \A p \in Px : Returned.px[p][4] = 0

\* C7, amended: 210 is the threshold of tolerance=100 and the maximum of the
\* mapping; with tolerance=100 a single-colour image with at least one pixel
\* comes back fully transparent in auto mode, and in colour mode when the
\* reference colour is within distance 210 of the image's colour; with a
\* reference colour farther away no pixel is made transparent.
C7_SolidClearedWhenNear ==
    /\ pc = "start" =>
         /\ ThrOf(100) = 210
         /\ \A t \in TolRange : ThrOf(t) <= 210 /\ ThrOf(t) >= 0
    /\ (tolerance = 100 /\ Solid) =>
         /\ pc # "error"
         /\ pc \notin {"start", "error"} => thr = 210
         /\ pc = "done" =>
              IF ref_color = <<>> \/ ManhattanRGB(ref_color, SolidColour) <= 210
              THEN make_transp = Px /\ \A p \in Px : Returned.px[p][4] = 0
              ELSE make_transp = {}

C7_Witness ==
    /\ pc = "done" /\ tolerance = 100 /\ Solid /\ pass = 1
    /\ ref_color = <<>>
    /\ Cardinality(Px) > 1
    /\ make_transp = Px

RECURSIVE SumOver(_, _)
SumOver(S, f) ==
    IF S = {} THEN 0
    ELSE LET p == CHOOSE e \in S : TRUE IN f[p] + SumOver(S \ {p}, f)

\* How often a pixel lies on the top row, bottom row, left and right column.
LineCount(p) ==
    (IF p[2] = 0 THEN 1 ELSE 0) + (IF p[2] = img.h - 1 THEN 1 ELSE 0)
    + (IF p[1] = 0 THEN 1 ELSE 0) + (IF p[1] = img.w - 1 THEN 1 ELSE 0)

\* How often avg_border_color reads a pixel.
ReadCount(p) ==
    Cardinality({i \in 1 .. Len(BorderReads(img.w, img.h)) :
                   PxIndex(img, BorderReads(img.w, img.h)[i]) = p})

IsCorner(p) == p[1] \in {0, img.w - 1} /\ p[2] \in {0, img.h - 1}

BorderMean(ch) ==
    SumOver(Px, [p \in Px |-> LineCount(p) * img.px[p][ch]]) \div (2 * img.w + 2 * img.h)

UniformBorder == \A p1 \in Px, p2 \in Px :
    (OnBorder(p1) /\ OnBorder(p2)) => RGB(img.px[p1]) = RGB(img.px[p2])

AutoResolved == ref_color = <<>> /\ pc \notin {"start", "error"}

\* The part of C8 that every image satisfies: the truncated mean over the
\* four border lines, 2w + 2h samples; c for a border of colour c; the 4x4
\* image of the example.
AutoReferenceIsMean ==
    /\ ref = <<BorderMean(1), BorderMean(2), BorderMean(3)>>
    /\ pc = "done" =>
          /\ \A p \in Px : ReadCount(p) = LineCount(p)
          /\ SumOver(Px, [p \in Px |-> ReadCount(p)]) = 2 * img.w + 2 * img.h
    /\ UniformBorder => \A p \in Px : OnBorder(p) => ref = RGB(img.px[p])
    /\ (img = Frame4) => ref = <<10, 20, 30>>
    /\ (img = Frame4 /\ tolerance = 10 /\ pc = "done") =>
          /\ thr = 21
          /\ Cardinality(make_transp) = 12
          /\ \A p \in Px : (Returned.px[p][4] = 0) <=> OnBorder(p)
          /\ \A p \in Px : ~OnBorder(p) => Returned.px[p] = PixB

\* C8 as stated: in auto mode the reference colour is the truncated mean over
\* top row, bottom row, left column and right column, 2w + 2h samples, and
\* each corner pixel is counted twice, every other border pixel once.
C8_CornersCountedTwice ==
    AutoResolved =>
        /\ AutoReferenceIsMean
        /\ pc = "done" =>
              \A p \in Px : ReadCount(p) =
                  IF IsCorner(p) THEN 2 ELSE IF OnBorder(p) THEN 1 ELSE 0

\* C8, amended: as stated, a pixel being counted once for each of the four
\* border lines it lies on: a corner twice, another border pixel once, when
\* the image has two or more rows and two or more columns.
C8_AutoReference ==
    AutoResolved =>
        /\ AutoReferenceIsMean
        /\ (pc = "done" /\ img.w >= 2 /\ img.h >= 2) =>
              \A p \in Px : ReadCount(p) =
                  IF IsCorner(p) THEN 2 ELSE IF OnBorder(p) THEN 1 ELSE 0

C8_Witness ==
    /\ pc = "done" /\ pass = 1
    /\ img = Frame4 /\ ref_color = <<>> /\ tolerance = 10
    /\ Cardinality(make_transp) = 12

LogCount(kind, p) == Cardinality({i \in 1 .. Len(log) : log[i] = <<kind, p>>})

\* C10, the bookkeeping: the fill ends with an empty queue; a pixel is
\* enqueued at most once and marked visited at most once; once it is marked
\* visited its colour distance is not tested again; at most w*h enqueues.
C10_VisitedOnce ==
    /\ pc = "done" => q = <<>>
    /\ \A p \in Px : LogCount("enq", p) <= 1 /\ LogCount("visit", p) <= 1
    /\ \A i \in 1 .. Len(log) : \A j \in 1 .. Len(log) :
          (i < j /\ log[i][1] = "visit") => log[j] # <<"test", log[i][2]>>
    /\ Cardinality({i \in 1 .. Len(log) : log[i][1] = "enq"}) <= img.w * img.h
    /\ \A i \in 1 .. Len(q) : LogCount("enq", q[i]) = 1

\* C10: every flood fill that has started seeding or filling ends, with an
\* empty queue, and the bookkeeping above holds throughout.
C10_Terminates ==
    /\ []C10_VisitedOnce
    /\ (pc \in {"seed", "fill"}) ~> (pc = "done" /\ q = <<>>)

C10_Witness ==
    /\ pc = "done" /\ img.w = 3 /\ img.h = 3
    /\ <<1, 1>> \in make_transp
    /\ \E p \in Px : LogCount("test", p) >= 2 /\ LogCount("visit", p) = 1
    /\ \E p \in Px : LogCount("visit", p) = 1 /\ LogCount("enq", p) = 0

\* C6: whatever the order of seeding, of taking pixels from the queue and of
\* examining the four neighbours, the fill ends with the pixels marked
\* transparent that the traversal order of the code marks.
C6_OrderIndependent ==
    pc = "done" =>
        /\ make_transp = flood_fill(Cx).make_transp
        /\ Returned = output_image(img, flood_fill(Cx).make_transp)

C6_Witness ==
    /\ pc = "done" /\ img.w = 3 /\ img.h = 3
    /\ <<1, 1>> \in make_transp
    /\ Cardinality(make_transp) = 3

\* The reference colour read by hex_to_rgb is a colour: blanks around it and
\* one leading "#" apart, three or six hexadecimal digits.
HexCore ==
    LET t == Strip(req.ref_hex)
    IN  IF t # <<>> /\ Head(t) = "#" THEN Tail(t) ELSE t

ValidRefHex ==
    /\ Len(HexCore) \in {3, 6}
    /\ \A i \in 1 .. Len(HexCore) : IsHexChar(HexCore[i])

ExpandedCore ==
    IF Len(HexCore) = 3
    THEN <<HexCore[1], HexCore[1], HexCore[2], HexCore[2], HexCore[3], HexCore[3]>>
    ELSE HexCore

\* C3: in colour mode a ref_hex that is not a valid 3- or 6-digit hex colour
\* is answered with status 400 and the flood fill is not called; a valid one
\* is read with each digit of the 3-digit form doubled.
C3_InvalidColorRejected ==
    req.hex_read =>
        IF ValidRefHex
        THEN req.ref = <<16 * HexVal(ExpandedCore[1]) + HexVal(ExpandedCore[2]),
                         16 * HexVal(ExpandedCore[3]) + HexVal(ExpandedCore[4]),
                         16 * HexVal(ExpandedCore[5]) + HexVal(ExpandedCore[6])>>
        ELSE status = 400 /\ ~ffInvoked

\* C9: a request for background removal with a JPEG or BMP target never runs
\* the flood fill, never gets past the check of line 236 and ends in an
\* error response, never in status 200.
C9_NonAlphaTargetRejected ==
    (req.remove_bg /\ req.pil_fmt \in {"JPEG", "BMP"}) =>
        /\ ~ffInvoked
        /\ rpc \in {"open", "combo", "done"}
        /\ rpc = "done" => status = 400

C9_Witness ==
    /\ req.remove_bg /\ req.pil_fmt = "BMP"
    /\ rpc = "done" /\ status = 400

====
